---- MODULE Spec2Model ----
(***************************************************************************)
(* CsvAnalyser (src/plixel/CsvAnalyser.py): a wrapper that holds two       *)
(* references to pandas DataFrame objects, self._df (the table given at    *)
(* construction) and self.df (the table the operations work on).           *)
(*                                                                         *)
(* DataFrame objects live in a heap, because the code shares and mutates   *)
(* them by reference: `self.df = self._df` makes both attributes name one  *)
(* object, and `self.df.columns = ...` / `dropna(inplace=True)` change the *)
(* object itself.  A table value is a record                               *)
(*    [columns : sequence of column labels,                                *)
(*     index   : sequence of row labels (pandas' index),                   *)
(*     data    : sequence of rows, each a sequence of cells]               *)
(***************************************************************************)
EXTENDS Integers, Sequences, FiniteSets, TLC

VARIABLES
    pc,        \* "new" before __init__, "ready" after it, "failed" if it raised
    heap,      \* object id -> table value of that DataFrame object
    _df,       \* self._df : object id (0 = attribute not set)
    df,        \* self.df  : object id (0 = attribute not set)
    given,     \* history: the table value supplied / parsed at construction
    call       \* the call in progress: its arguments, its outcome and the
               \* tables it found, until the caller takes the outcome

vars == <<pc, heap, _df, df, given, call>>

-----------------------------------------------------------------------------
(* Bounds of the model *)

\* The table given at construction: at most MaxRows rows, MaxCols columns and
\* MaxCells cells.  The second table of a merge: at most MaxRows2 rows, MaxCols
\* columns and MaxCells2 cells.
MaxRows == 2
MaxCols == 3
MaxCells == 4
MaxRows2 == 1
MaxCells2 == 1

-----------------------------------------------------------------------------
(* Values *)

\* The null marker (NaN) and the non-null cell values.
NaN == "NaN"
Cells == {NaN, "1"}
FillValues == {"2"}
FilterValues == {"1", "2"}

\* A column label is a Python object: a str (a sequence of characters) or,
\* as in pd.DataFrame([[1, 2]]), an int.
StrLabel(chars) == [type |-> "str", val |-> chars]
IntLabel(n) == [type |-> "int", val |-> <<n>>]

A_b == StrLabel(<<"A", " ", "b">>)
a_b == StrLabel(<<"a", "_", "b">>)
age == StrLabel(<<"a", "g", "e">>)
StrLabels == {A_b, a_b, age}
Labels == StrLabels \cup {IntLabel("0")}

\* Exceptions, by class and (for ValueError) message.
NoError == "none"
ConfigurationError == "ValueError: Must provide atleast one argument"
NotFoundError == "FileNotFoundError: File not found"
UnsupportedFormatError == "ValueError: Only .csv files are supported"
ColumnNotFoundError == "ValueError: Column not found in the DataFrame"
UnsupportedMetricError == "ValueError: Unsupported metric"
UnsupportedPlotTypeError == "ValueError: Unsupported plot type"
IndexOutOfBoundsError == "IndexError: out of bounds"
AttributeError == "AttributeError: 'int' object has no attribute 'lower'"
TypeError == "TypeError: unhashable type: 'list'"
InvalidIndexError == "InvalidIndexError: Reindexing only valid with uniquely valued Index objects"

-----------------------------------------------------------------------------
(* Sequences *)

Range(s) == {s[i] : i \in 1..Len(s)}

IsUnique(s) == \A i, j \in 1..Len(s) : s[i] = s[j] => i = j

\* The positions in S, in increasing order.
Ascending(S) ==
    [k \in 1..Cardinality(S) |->
        CHOOSE i \in S : Cardinality({j \in S : j < i}) = k - 1]

\* All sequences over S of length 0..n.
SeqsUpTo(S, n) == UNION {[1..k -> S] : k \in 0..n}

-----------------------------------------------------------------------------
(* pandas.DataFrame values *)

Table(columns, index, data) == [columns |-> columns, index |-> index, data |-> data]

\* pandas.RangeIndex(n): the labels 0 .. n-1.
RangeIndex(n) == [i \in 1..n |-> i - 1]

\* len(df)
NRows(t) == Len(t.data)

\* The tables with at most maxc columns, maxr rows and maxcells cells, with
\* pairwise distinct column labels drawn from labels and the default row labels.
Tables(labels, maxc, maxr, maxcells) ==
    {Table(c, RangeIndex(Len(d)), d) :
        <<c, d>> \in UNION {{cc} \X {dd \in SeqsUpTo([1..Len(cc) -> Cells], maxr) :
                                        Len(cc) * Len(dd) <= maxcells} :
                       cc \in {x \in SeqsUpTo(labels, maxc) : IsUnique(x)}}}

\* `column in df.columns`
HasColumn(t, column) == column \in Range(t.columns)

\* The rows of t at the given positions, keeping their row labels.
TakeRows(t, pos) ==
    Table(t.columns, [k \in 1..Len(pos) |-> t.index[pos[k]]],
                     [k \in 1..Len(pos) |-> t.data[pos[k]]])

\* The columns of t at the given positions.
TakeColumns(t, pos) ==
    Table([k \in 1..Len(pos) |-> t.columns[pos[k]]], t.index,
          [r \in 1..NRows(t) |-> [k \in 1..Len(pos) |-> t.data[r][pos[k]]]])

HasNull(row) == \E c \in 1..Len(row) : row[c] = NaN

\* Mutant of dropna: dropna(how="all"), which drops a row only when every
\* cell of it is null.
dropna_how_all(t) ==
    TakeRows(t, Ascending({r \in 1..NRows(t) :
                              \E c \in 1..Len(t.data[r]) : t.data[r][c] # NaN}))

\* DataFrame.dropna(): the rows without a null cell; row labels are kept.
dropna(t) == TakeRows(t, Ascending({r \in 1..NRows(t) : ~HasNull(t.data[r])}))

\* DataFrame.fillna(value)
fillna(t, value) ==
    Table(t.columns, t.index,
          [r \in 1..NRows(t) |->
              [c \in 1..Len(t.columns) |->
                  IF t.data[r][c] = NaN THEN value ELSE t.data[r][c]]])

\* DataFrame.drop_duplicates(): the first occurrence of every row; row labels
\* are kept.
drop_duplicates(t) ==
    TakeRows(t, Ascending({r \in 1..NRows(t) :
                              \A q \in 1..(r - 1) : t.data[q] # t.data[r]}))

\* DataFrame.drop(columns=column) for a label that is present: every column
\* with that label goes.
drop(t, column) ==
    TakeColumns(t, Ascending({c \in 1..Len(t.columns) : t.columns[c] # column}))

\* DataFrame.isnull().sum().to_dict(): label -> number of null cells (with
\* repeated labels the dict keeps the last column's count).
isnull_sum(t) ==
    [n \in Range(t.columns) |->
        LET c == CHOOSE c \in 1..Len(t.columns) :
                    /\ t.columns[c] = n
                    /\ \A e \in (c + 1)..Len(t.columns) : t.columns[e] # n
        IN  Cardinality({r \in 1..NRows(t) : t.data[r][c] = NaN})]

\* The union of two column indexes as pd.concat(join="outer", sort=False)
\* forms it: the first one's labels, then the second one's new labels.
union_columns(c1, c2) ==
    c1 \o [k \in 1..Len(Ascending({i \in 1..Len(c2) : c2[i] \notin Range(c1)})) |->
              c2[Ascending({i \in 1..Len(c2) : c2[i] \notin Range(c1)})[k]]]

\* DataFrame.reindex(columns=cols) for a table with unique labels: the cell
\* of a label the table lacks is null.
reindex_row(t, r, cols) ==
    [k \in 1..Len(cols) |->
        IF cols[k] \in Range(t.columns)
        THEN t.data[r][CHOOSE c \in 1..Len(t.columns) : t.columns[c] = cols[k]]
        ELSE NaN]

\* pd.concat([t1, t2], axis=0, ignore_index=True) reindexes every frame whose
\* column index differs from the combined one, and reindexing a frame with a
\* repeated label raises.  A frame with a repeated label differs from the
\* combined index for certain when the other frame brings a new label.
concat_raises(t1, t2) ==
    /\ t1.columns # t2.columns
    /\ \/ ~IsUnique(t1.columns) /\ ~(Range(t2.columns) \subseteq Range(t1.columns))
       \/ ~IsUnique(t2.columns) /\ ~(Range(t1.columns) \subseteq Range(t2.columns))

\* When the other frame brings no new label, pandas versions differ in the
\* combined index (with or without the repetitions): the call may raise or
\* return.
concat_may_raise(t1, t2) ==
    t1.columns # t2.columns /\ ~(IsUnique(t1.columns) /\ IsUnique(t2.columns))

\* pd.concat([t1, t2], axis=0, ignore_index=True) when it does not raise.
concat(t1, t2) ==
    IF t1.columns = t2.columns
    THEN Table(t1.columns, RangeIndex(NRows(t1) + NRows(t2)), t1.data \o t2.data)
    ELSE LET cols == union_columns(t1.columns, t2.columns)
         IN  Table(cols, RangeIndex(NRows(t1) + NRows(t2)),
                   [r \in 1..NRows(t1) |-> reindex_row(t1, r, cols)]
                   \o [r \in 1..NRows(t2) |-> reindex_row(t2, r, cols)])

-----------------------------------------------------------------------------
(* str methods *)

\* str.lower() on one character of the alphabet the labels use.
lower_char(ch) ==
    CASE ch = "A" -> "a"
      [] ch = "B" -> "b"
      [] OTHER -> ch

\* str.lower()
lower(chars) == [i \in 1..Len(chars) |-> lower_char(chars[i])]

\* str.replace(old, new) for a one-character old
replace(chars, old, new) ==
    [i \in 1..Len(chars) |-> IF chars[i] = old THEN new ELSE chars[i]]

\* Mutant of standardise: col.replace(" ", "_"), without lower().
standardise_no_lower(col) == StrLabel(replace(col.val, " ", "_"))

\* col.lower().replace(" ", "_")
standardise(col) == StrLabel(replace(lower(col.val), " ", "_"))

-----------------------------------------------------------------------------
(* Files *)

\* A path is known by its suffix; whether a file exists there and what it
\* holds is the file system's choice at the time of the call.
Suffixes == {".csv", ".data", ".txt"}

\* file_path.endswith((".csv", ".data"))
endswith_csv_data(file_path) == file_path \in {".csv", ".data"}

EmptyDataError == "EmptyDataError: No columns to parse from file"

\* What a file can hold, as pd.read_csv parses it: the header row gives str
\* labels; a file without a header row has nothing to parse.
FileTables == Tables(StrLabels, MaxCols, MaxRows, MaxCells)
FileTables2 == Tables(StrLabels, MaxCols, MaxRows2, MaxCells2)

\* pd.read_csv raises on a file with no columns.
read_csv_raises(content) == Len(content.columns) = 0

\* The tables a caller can pass.
GivenTables == Tables(Labels, MaxCols, MaxRows, MaxCells)
SecondTables == Tables(Labels, MaxCols, MaxRows2, MaxCells2)

-----------------------------------------------------------------------------
(* The state machine *)

None == <<>>
Some(x) == <<x>>

NoTable == Table(<<>>, <<>>, <<>>)

\* The record of a call: what was called with what, the exception it raised
\* (NoError if none), what it returned, the heap object it returned (0 if the
\* result is a fresh object or no table), and the values of self._df and
\* self.df when it was called.
Called(op, args, err, ret, ref) ==
    [op |-> op, args |-> args, err |-> err, ret |-> ret, ref |-> ref,
     before |-> IF pc = "ready" THEN <<heap[_df], heap[df]>> ELSE <<>>]

Raised(op, args, err) == Called(op, args, err, None, 0)

\* No call is in progress.
NoCall ==
    [op |-> "none", args |-> None, err |-> NoError, ret |-> None, ref |-> 0,
     before |-> <<>>]

\* The object is constructed and its caller can make the next call.
Idle == pc = "ready" /\ call.op = "none"

\* A call that changes no attribute and no DataFrame object.
ReadOnly == UNCHANGED <<pc, heap, _df, df, given>>

Init ==
    /\ pc = "new"
    /\ heap = <<>>
    /\ _df = 0
    /\ df = 0
    /\ given = None
    /\ call = NoCall

\* __init__(df=table): both attributes name the caller's object.
InitDf(table) ==
    /\ heap' = <<table>>
    /\ _df' = 1
    /\ df' = 1
    /\ given' = Some(table)
    /\ pc' = "ready"
    /\ call' = Called("__init__",
                      [df |-> Some(table), file_path |-> None, exists |-> FALSE],
                      NoError, None, 0)

\* __init__(file_path=path) on a path that passes both tests: two reads of
\* the file make two objects.
InitRead(path, content) ==
    IF read_csv_raises(content)
    THEN /\ pc' = "failed"
         /\ call' = Raised("__init__",
                           [df |-> None, file_path |-> Some(path), exists |-> TRUE],
                           EmptyDataError)
         /\ UNCHANGED <<heap, _df, df, given>>
    ELSE /\ heap' = <<content, content>>
         /\ _df' = 1
         /\ df' = 2
         /\ given' = Some(content)
         /\ pc' = "ready"
         /\ call' = Called("__init__",
                           [df |-> None, file_path |-> Some(path), exists |-> TRUE],
                           NoError, None, 0)

\* The exception __init__ raises before it sets an attribute, NoError if none.
InitError(dfarg, file_path, exists) ==
    IF dfarg # None THEN NoError
    ELSE IF file_path # None /\ endswith_csv_data(file_path[1])
         THEN IF ~exists THEN NotFoundError ELSE NoError
         ELSE ConfigurationError

\* CsvAnalyser(df=..., file_path=...) with a table, a path or neither.
Construct ==
    /\ pc = "new"
    /\ \E dfarg \in {None} \cup {Some(t) : t \in GivenTables},
          content \in FileTables :
         \E file_path \in IF dfarg = None
                          THEN {None} \cup {Some(p) : p \in Suffixes}
                          ELSE {None} :
          \E exists \in IF file_path = None THEN {FALSE} ELSE BOOLEAN :
            IF InitError(dfarg, file_path, exists) # NoError
            THEN /\ pc' = "failed"
                 /\ call' = Raised("__init__",
                                   [df |-> dfarg, file_path |-> file_path,
                                    exists |-> exists],
                                   InitError(dfarg, file_path, exists))
                 /\ UNCHANGED <<heap, _df, df, given>>
            ELSE IF dfarg # None
                 THEN InitDf(dfarg[1])
                 ELSE InitRead(file_path[1], content)

\* The value of the DataFrame self.df names.
Working == heap[df]

\* The value of the DataFrame self._df names.
Original == heap[_df]

\* get_summary(): the columns and the row count (the statistics are left out).
get_summary ==
    /\ Idle
    /\ call' = Called("get_summary", None, NoError,
                      [columns |-> Working.columns, row_count |-> NRows(Working)], 0)
    /\ ReadOnly

Metrics == {"mean", "median", "max", "min", "std", "var"}

\* get_trends(metric): the aggregates themselves are left out.
get_trends ==
    /\ Idle
    /\ \E metric \in {"mean", "var", "bogus"} :
         call' = IF metric \notin Metrics
                 THEN Raised("get_trends", metric, UnsupportedMetricError)
                 ELSE Called("get_trends", metric, NoError, None, 0)
    /\ ReadOnly

\* df[df[column] == value], when the label names several columns, compares a
\* frame and has to align it with df; when df has other columns too, the
\* alignment on repeated labels may raise.
mask_may_raise(t, column) ==
    /\ Cardinality({c \in 1..Len(t.columns) : t.columns[c] = column}) > 1
    /\ \E c \in 1..Len(t.columns) : t.columns[c] # column

\* df[df[column] == value]: the rows whose cell equals value; when the label
\* names several columns the comparison is a frame, and every cell it does
\* not hold as equal is masked instead.
mask(t, column, value) ==
    IF Cardinality({c \in 1..Len(t.columns) : t.columns[c] = column}) = 1
    THEN LET c == CHOOSE c \in 1..Len(t.columns) : t.columns[c] = column
         IN  TakeRows(t, Ascending({r \in 1..NRows(t) : t.data[r][c] = value}))
    ELSE Table(t.columns, t.index,
               [r \in 1..NRows(t) |->
                   [c \in 1..Len(t.columns) |->
                       IF t.columns[c] = column /\ t.data[r][c] = value
                       THEN value ELSE NaN]])

MaskError == "ValueError: cannot reindex on an axis with duplicate labels"

filter_rows ==
    /\ Idle
    /\ \E column \in Labels, value \in FilterValues :
         IF ~HasColumn(Working, column)
         THEN call' = Raised("filter_rows", <<column, value>>, ColumnNotFoundError)
         ELSE \/ /\ mask_may_raise(Working, column)
                 /\ call' = Raised("filter_rows", <<column, value>>, MaskError)
              \/ call' = Called("filter_rows", <<column, value>>, NoError,
                                mask(Working, column, value), 0)
    /\ ReadOnly

\* The exception merge_csv raises before it concatenates, NoError if none.
MergeCsvError(file_path, exists, content) ==
    IF ~exists THEN NotFoundError
    ELSE IF ~endswith_csv_data(file_path) THEN UnsupportedFormatError
    ELSE IF read_csv_raises(content) THEN EmptyDataError
    ELSE NoError

\* return pd.concat([self.df, df2], axis=0, ignore_index=True)
Merged(op, args, df2) ==
    \/ /\ concat_may_raise(Working, df2)
       /\ call' = Raised(op, args, InvalidIndexError)
    \/ /\ ~concat_raises(Working, df2)
       /\ call' = Called(op, args, NoError, concat(Working, df2), 0)

merge_csv ==
    /\ Idle
    /\ \E file_path \in Suffixes, exists \in BOOLEAN :
        \E content \in IF exists /\ endswith_csv_data(file_path)
                       THEN FileTables2 ELSE {NoTable} :
         LET args == [file_path |-> file_path, exists |-> exists, df2 |-> content]
         IN  IF MergeCsvError(file_path, exists, content) # NoError
             THEN call' = Raised("merge_csv", args,
                                 MergeCsvError(file_path, exists, content))
             ELSE Merged("merge_csv", args, content)
    /\ ReadOnly

merge_dataframes ==
    /\ Idle
    /\ \E df2 \in SecondTables :
         Merged("merge_dataframes", [df2 |-> df2], df2)
    /\ ReadOnly

\* self.df = self._df
change_to_init_state ==
    /\ Idle
    /\ df' = _df
    /\ call' = Called("change_to_init_state", None, NoError, None, 0)
    /\ UNCHANGED <<pc, heap, _df, given>>

\* [col.lower().replace(" ", "_") for col in self.df.columns]: raises on a
\* label that is no str.
headers_raise(columns) == \E i \in 1..Len(columns) : columns[i].type # "str"

new_headers(columns) == [i \in 1..Len(columns) |-> standardise(columns[i])]

\* Mutant of standardise_headers: the labels are renamed in place one after
\* the other, so the str labels before the first other label are already
\* changed when the call raises.
standardise_headers_one_by_one ==
    /\ Idle
    /\ LET cols == Working.columns
           stop == IF headers_raise(cols)
                   THEN CHOOSE i \in 1..Len(cols) :
                           /\ cols[i].type # "str"
                           /\ \A j \in 1..(i - 1) : cols[j].type = "str"
                   ELSE Len(cols) + 1
       IN  /\ heap' = [heap EXCEPT ![df].columns =
                         [i \in 1..Len(cols) |->
                             IF i < stop THEN standardise(cols[i]) ELSE cols[i]]]
           /\ call' = IF headers_raise(cols)
                      THEN Raised("standardise_headers", None, AttributeError)
                      ELSE Called("standardise_headers", None, NoError, None, 0)
    /\ UNCHANGED <<pc, _df, df, given>>

\* self.df.columns = [...]: the object self.df names gets the new labels.
standardise_headers ==
    /\ Idle
    /\ IF headers_raise(Working.columns)
       THEN /\ call' = Raised("standardise_headers", None, AttributeError)
            /\ UNCHANGED heap
       ELSE /\ heap' = [heap EXCEPT ![df].columns = new_headers(Working.columns)]
            /\ call' = Called("standardise_headers", None, NoError, None, 0)
    /\ UNCHANGED <<pc, _df, df, given>>

remove_duplicates ==
    /\ Idle
    /\ call' = Called("remove_duplicates", None, NoError, drop_duplicates(Working), 0)
    /\ ReadOnly

PlotTypes == {"histogram", "boxplot"}

\* plot_column(column, plot_type): the figure is left out.
plot_column ==
    /\ Idle
    /\ \E column \in Labels, plot_type \in {"histogram", "boxplot", "pie"} :
         call' = IF ~HasColumn(Working, column)
                 THEN Raised("plot_column", <<column, plot_type>>, ColumnNotFoundError)
                 ELSE IF plot_type \notin PlotTypes
                 THEN Raised("plot_column", <<column, plot_type>>,
                             UnsupportedPlotTypeError)
                 ELSE Called("plot_column", <<column, plot_type>>, NoError, None, 0)
    /\ ReadOnly

\* df.iloc[index]: a negative index counts from the end; pandas raises
\* IndexError outside -len(df) .. len(df)-1.
iloc_raises(t, index) == index >= NRows(t) \/ index < -NRows(t)

iloc(t, index) ==
    LET r == IF index >= 0 THEN index + 1 ELSE NRows(t) + index + 1
    IN  [name |-> t.index[r], labels |-> t.columns, values |-> t.data[r]]

\* The exception get_row raises, NoError if none: the method's own test,
\* then iloc's.
GetRowError(t, index) ==
    IF index >= NRows(t) THEN IndexOutOfBoundsError
    ELSE IF iloc_raises(t, index) THEN IndexOutOfBoundsError
    ELSE NoError

get_row ==
    /\ Idle
    /\ \E index \in (-(MaxRows + 1))..MaxRows :
         call' = IF GetRowError(Working, index) # NoError
                 THEN Raised("get_row", index, GetRowError(Working, index))
                 ELSE Called("get_row", index, NoError, iloc(Working, index), 0)
    /\ ReadOnly

\* df[column]: the columns with that label.
getitem(t, column) ==
    TakeColumns(t, Ascending({c \in 1..Len(t.columns) : t.columns[c] = column}))

get_column ==
    /\ Idle
    /\ \E column \in Labels :
         call' = IF ~HasColumn(Working, column)
                 THEN Raised("get_column", column, ColumnNotFoundError)
                 ELSE Called("get_column", column, NoError, getitem(Working, column), 0)
    /\ ReadOnly

check_missing_values ==
    /\ Idle
    /\ call' = Called("check_missing_values", None, NoError, isnull_sum(Working), 0)
    /\ ReadOnly

\* Mutant of fill_missing_values: self.df.fillna(value, inplace=True).
fill_missing_values_inplace ==
    /\ Idle
    /\ \E value \in FillValues :
         /\ heap' = [heap EXCEPT ![df] = fillna(Working, value)]
         /\ call' = Called("fill_missing_values", value, NoError,
                           fillna(Working, value), df)
    /\ UNCHANGED <<pc, _df, df, given>>

fill_missing_values ==
    /\ Idle
    /\ \E value \in FillValues :
         call' = Called("fill_missing_values", value, NoError, fillna(Working, value), 0)
    /\ ReadOnly

\* self.df.dropna(inplace=True); return self.df
drop_missing_values ==
    /\ Idle
    /\ heap' = [heap EXCEPT ![df] = dropna(Working)]
    /\ call' = Called("drop_missing_values", None, NoError, dropna(Working), df)
    /\ UNCHANGED <<pc, _df, df, given>>

\* The arguments drop_column is called with: a label, or a list of labels.
OneLabel(column) == [list |-> FALSE, v |-> <<column>>]
ListOf(columns) == [list |-> TRUE, v |-> columns]
DropArgs ==
    {OneLabel(c) : c \in Labels}
    \cup {ListOf(l) : l \in {<<a_b>>, <<A_b, a_b>>, <<IntLabel("0")>>}}

\* `column not in self.df.columns` hashes its left operand: a list raises
\* TypeError.
DropColumnError(t, column) ==
    IF column.list THEN TypeError
    ELSE IF ~HasColumn(t, column.v[1]) THEN ColumnNotFoundError
    ELSE NoError

drop_column ==
    /\ Idle
    /\ \E column \in DropArgs :
         call' = IF DropColumnError(Working, column) # NoError
                 THEN Raised("drop_column", column, DropColumnError(Working, column))
                 ELSE Called("drop_column", column, NoError,
                             drop(Working, column.v[1]), 0)
    /\ ReadOnly

\* The caller takes the outcome of the call.
Return ==
    /\ pc = "ready"
    /\ call.op # "none"
    /\ call' = NoCall
    /\ ReadOnly

Next ==
    \/ Construct
    \/ Return
    \/ get_summary
    \/ get_trends
    \/ filter_rows
    \/ merge_csv
    \/ merge_dataframes
    \/ change_to_init_state
    \/ standardise_headers
    \/ remove_duplicates
    \/ plot_column
    \/ get_row
    \/ get_column
    \/ check_missing_values
    \/ fill_missing_values
    \/ drop_missing_values
    \/ drop_column

Spec == Init /\ [][Next]_vars

-----------------------------------------------------------------------------
(* Properties *)

\* Same column names and same rows.
ValueEqual(t1, t2) == t1.columns = t2.columns /\ t1.data = t2.data

\* The tables self._df and self.df named when the call in progress began.
OriginalBefore == call.before[1]
WorkingBefore == call.before[2]

Returned(op) == pc = "ready" /\ call.op = op

\* C1: self._df stays value-equal to the table given at construction, so
\* after change_to_init_state() self.df is value-equal to that table.
C1_OriginalIsConstructionTable ==
    pc = "ready" =>
        /\ ValueEqual(Original, given[1])
        /\ call.op = "change_to_init_state" => ValueEqual(Working, given[1])

\* C2: a call that raises leaves self.df and self._df as they were: the same
\* objects with the same values.
C2_RaisedCallChangesNothing ==
    (pc = "ready" /\ call.err # NoError) =>
        /\ Original = OriginalBefore
        /\ Working = WorkingBefore

\* A mutating operation has raised on a table it could have changed in part.
C2_Witness ==
    /\ Returned("standardise_headers")
    /\ call.err = AttributeError
    /\ \E i \in 1..Len(Working.columns) :
          /\ Working.columns[i].type = "str"
          /\ standardise(Working.columns[i]) # Working.columns[i]

ReadOnlyOps ==
    {"get_summary", "get_trends", "filter_rows", "merge_csv", "merge_dataframes",
     "remove_duplicates", "get_row", "get_column", "check_missing_values",
     "fill_missing_values", "drop_column"}

MutatingOps == {"standardise_headers", "drop_missing_values", "change_to_init_state"}

\* C3: the read-only operations change neither attribute nor either DataFrame
\* object, whether they return or raise; a step that changes the value of
\* self.df is a step of standardise_headers, drop_missing_values or
\* change_to_init_state.
C3_ReadOnlyOperationsChangeNothing ==
    [][/\ call'.op \in ReadOnlyOps => UNCHANGED <<heap, _df, df>>
       /\ (pc = "ready" /\ heap'[df'] # heap[df]) => call'.op \in MutatingOps]_vars

\* A read-only operation has returned a table that differs from self.df.
C3_Witness ==
    /\ Returned("fill_missing_values")
    /\ call.err = NoError
    /\ call.ret # Working
    /\ Working = WorkingBefore

\* C4: get_row(index) raises the out-of-bounds error for every index outside
\* 0 .. row_count-1, negative ones included, and returns the row at that
\* zero-based position for every index inside.
C4_GetRowValidatesBothBounds ==
    Returned("get_row") =>
        IF 0 <= call.args /\ call.args < NRows(Working)
        THEN /\ call.err = NoError
             /\ call.ret.values = Working.data[call.args + 1]
        ELSE call.err = IndexOutOfBoundsError

\* The labels a drop_column argument names.
Named(column) == Range(column.v)

\* C5: drop_column(column), for one label or a list of labels, raises
\* column-not-found if a named label is absent and otherwise returns the
\* table without the named columns, the others in order with their rows.
C5_DropColumnAcceptsLabelOrList ==
    Returned("drop_column") =>
        IF \E n \in Named(call.args) : ~HasColumn(Working, n)
        THEN call.err = ColumnNotFoundError
        ELSE /\ call.err = NoError
             /\ LET kept == {c \in 1..Len(Working.columns) :
                               Working.columns[c] \notin Named(call.args)}
                IN  /\ Len(call.ret.columns) = Cardinality(kept)
                    /\ NRows(call.ret) = NRows(Working)
                    /\ \E f \in [1..Cardinality(kept) -> kept] :
                          /\ \A i, j \in 1..Cardinality(kept) : i < j => f[i] < f[j]
                          /\ \A k \in 1..Cardinality(kept) :
                                /\ call.ret.columns[k] = Working.columns[f[k]]
                                /\ \A r \in 1..NRows(Working) :
                                      call.ret.data[r][k] = Working.data[r][f[k]]

\* C6: construction with neither argument raises the configuration error;
\* with a path that ends in neither ".csv" nor ".data" the unsupported-format
\* error, which is another error; with a path of such an ending and no file
\* there the not-found error; otherwise it succeeds and both attributes hold
\* the table given or parsed (a file the reader cannot parse is no case of
\* the claim).
C6_ConstructionErrors ==
    (call.op = "__init__") =>
        IF call.args.df # None
        THEN pc = "ready" /\ Original = call.args.df[1] /\ Working = call.args.df[1]
        ELSE IF call.args.file_path = None
        THEN pc = "failed" /\ call.err = ConfigurationError
        ELSE IF ~endswith_csv_data(call.args.file_path[1])
        THEN /\ pc = "failed"
             /\ call.err = UnsupportedFormatError
             /\ call.err # ConfigurationError
        ELSE IF ~call.args.exists
        THEN pc = "failed" /\ call.err = NotFoundError
        ELSE IF call.err = EmptyDataError
        THEN TRUE
        ELSE pc = "ready" /\ Original = given[1] /\ Working = given[1]

\* The lower-cased form of a character, with a space turned into an
\* underscore.
C7_Char(ch) ==
    IF ch = " " THEN "_" ELSE IF ch = "A" THEN "a" ELSE IF ch = "B" THEN "b" ELSE ch

\* No upper-case letter and no space is left in any label.
C7_Standard(columns) ==
    \A i \in 1..Len(columns) :
        /\ columns[i].type = "str"
        /\ \A k \in 1..Len(columns[i].val) : columns[i].val[k] \notin {"A", "B", " "}

\* C7: standardise_headers() on str labels puts in place of every label of
\* self.df its lower-cased form with spaces as underscores, in the same
\* order, with the rows and every cell as they were; a second call in a row
\* leaves the labels of the first.
C7_StandardiseHeaders ==
    Returned("standardise_headers") =>
        /\ call.err = NoError <=> \A i \in 1..Len(WorkingBefore.columns) :
                                      WorkingBefore.columns[i].type = "str"
        /\ call.err = NoError =>
              /\ Len(Working.columns) = Len(WorkingBefore.columns)
              /\ \A i \in 1..Len(Working.columns) :
                    /\ Working.columns[i].type = "str"
                    /\ Len(Working.columns[i].val) = Len(WorkingBefore.columns[i].val)
                    /\ \A k \in 1..Len(Working.columns[i].val) :
                          Working.columns[i].val[k]
                              = C7_Char(WorkingBefore.columns[i].val[k])
              /\ Working.data = WorkingBefore.data
              /\ Working.index = WorkingBefore.index
              /\ C7_Standard(Working.columns)
              /\ C7_Standard(WorkingBefore.columns) =>
                    Working.columns = WorkingBefore.columns

\* standardise_headers() has changed a label of a table with a row.
C7_Witness ==
    /\ Returned("standardise_headers")
    /\ call.err = NoError
    /\ Working.columns # WorkingBefore.columns
    /\ Len(Working.columns) = 2
    /\ NRows(Working) > 0

\* standardise_headers() has run on labels an earlier call standardised.
C7_WitnessSecondCall ==
    /\ Returned("standardise_headers")
    /\ call.err = NoError
    /\ Len(Working.columns) > 0
    /\ C7_Standard(WorkingBefore.columns)
    /\ ~C7_Standard(given[1].columns)

\* The rows of t without a null cell, as positions of t in increasing order.
C8_Kept(t) == {r \in 1..NRows(t) : \A c \in 1..Len(t.data[r]) : t.data[r][c] # NaN}

\* now holds exactly the rows of before that have no null cell, in their
\* order; labels[k, r] is the row label that row r of before must carry at
\* position k of now.
C8_RowsKept(before, now, labels) ==
    /\ now.columns = before.columns
    /\ NRows(now) = Cardinality(C8_Kept(before))
    /\ Len(now.index) = NRows(now)
    /\ \E f \in [1..NRows(now) -> C8_Kept(before)] :
          /\ \A i, j \in 1..NRows(now) : i < j => f[i] < f[j]
          /\ \A k \in 1..NRows(now) :
                /\ now.data[k] = before.data[f[k]]
                /\ now.index[k] = labels[k, f[k]]

\* check_missing_values() would report 0 for every column.
C8_NoneMissing == \A n \in DOMAIN isnull_sum(Working) : isnull_sum(Working)[n] = 0

\* C8 as claimed: drop_missing_values() leaves in self.df exactly the rows
\* that had no null cell, in order, with the row labels renumbered from zero,
\* and returns that table; check_missing_values() then counts 0 everywhere.
C8_DropMissingRenumbers ==
    Returned("drop_missing_values") =>
        /\ call.err = NoError
        /\ C8_RowsKept(WorkingBefore, Working,
                      [k, r \in 1..NRows(WorkingBefore) |-> k - 1])
        /\ call.ref = df /\ call.ret = Working
        /\ C8_NoneMissing

\* C8 as amended: as above, but every row that stays keeps the row label it
\* had (the positions are consecutive from zero, the labels are not
\* renumbered).
C8_DropMissingKeepsLabels ==
    Returned("drop_missing_values") =>
        /\ call.err = NoError
        /\ C8_RowsKept(WorkingBefore, Working,
                      [k, r \in 1..NRows(WorkingBefore) |-> WorkingBefore.index[r]])
        /\ call.ref = df /\ call.ret = Working
        /\ C8_NoneMissing

\* drop_missing_values() has dropped a row and kept a later one.
C8_Witness ==
    /\ Returned("drop_missing_values")
    /\ NRows(WorkingBefore) = 2
    /\ NRows(Working) = 1
    /\ Working.data[1] = WorkingBefore.data[2]
    /\ Len(Working.columns) > 0

\* The table a merge was given (for merge_csv, the table parsed from a file
\* that exists and has a recognised ending).
C9_Merging ==
    /\ pc = "ready"
    /\ \/ call.op = "merge_dataframes"
       \/ /\ call.op = "merge_csv"
          /\ call.err \notin {NotFoundError, UnsupportedFormatError, EmptyDataError}

\* C9: a merge returns a table with as many rows as both inputs together,
\* the union of their column labels, the rows of self.df followed by those of
\* the second table under row labels 0, 1, 2, ..., and the null marker in
\* every cell of a column the row's own table lacks.
C9_MergeConcatenates ==
    C9_Merging =>
        LET t2 == call.args.df2
            m == call.ret
            src(r) == IF r <= NRows(Working) THEN Working ELSE t2
            row(r) == IF r <= NRows(Working) THEN r ELSE r - NRows(Working)
        IN  /\ call.err = NoError
            /\ NRows(m) = NRows(Working) + NRows(t2)
            /\ Range(m.columns) = Range(Working.columns) \cup Range(t2.columns)
            /\ m.index = [r \in 1..NRows(m) |-> r - 1]
            /\ \A r \in 1..NRows(m) : \A k \in 1..Len(m.columns) :
                  IF m.columns[k] \in Range(src(r).columns)
                  THEN \E c \in 1..Len(src(r).columns) :
                          /\ src(r).columns[c] = m.columns[k]
                          /\ m.data[r][k] = src(r).data[row(r)][c]
                  ELSE m.data[r][k] = NaN

\* C10: the column labels of self.df are pairwise distinct (they are in the
\* table given at construction).
C10_ColumnLabelsDistinct ==
    pc = "ready" => IsUnique(Working.columns)

====
